---- MODULE Spec2Model ----
(***************************************************************************)
(* Model of scripts/generate_flight_data_csv.py: the record generator      *)
(* FlightDataGeneratorCSV.generate_flight_record, the streaming writer     *)
(* FlightDataGeneratorCSV.generate_to_csv and the top-level runner main.   *)
(*                                                                         *)
(* Two specifications:                                                     *)
(*   Spec     one run of main under a configuration drawn from a bounded   *)
(*            set, with I/O failures as nondeterministic branches;         *)
(*   SpecRec  generate_flight_record applied to every combination of its   *)
(*            random draws taken from bounded sample sets.                 *)
(***************************************************************************)
EXTENDS Integers, Sequences, FiniteSets, TLC

VARIABLES
    config,       \* CONFIG: total_records, batch_size, date_range (= (end_date - start_date).days)
    pc,           \* position of the run inside main / generate_to_csv
    i,            \* loop variable of "for i in range(1, total_records + 1)"
    record,       \* dict returned by the last generate_flight_record call
    locals,       \* random draws and locals of the last generate_flight_record call
    handle,       \* state of csvfile: "none", "open", "closed"
    buf,          \* rows written to csvfile and still buffered
    disk,         \* content of output_file on disk
    progress,     \* pbar.n, the cumulative progress reported to tqdm
    flushLog,     \* one entry per csvfile.flush() call: rows written and progress at the call
    genCalls,     \* record_id argument of every generate_flight_record call, in call order
    raised,       \* exception in flight or caught: "none" or its class name
    exit_status   \* exit status of the process, -1 while it runs

vars == <<config, pc, i, record, locals, handle, buf, disk, progress,
          flushLog, genCalls, raised, exit_status>>

----------------------------------------------------------------------------
(* Bounds of the model *)

MaxRecords == 3
MaxBatch == 2
MaxDateRange == 1

(* Program constants *)

RouteIdMax == 10000
FlightNoMin == 100
FlightNoMax == 9999
FlightNoWidth == 10
SelectorMax == 100
EconomyBelow == 85
BusinessBelow == 97
NarrowPaxMin == 150
NarrowPaxMax == 220
NarrowCo2Min == 80
NarrowCo2Max == 120
WidePaxMin == 250
WidePaxMax == 400
WideCo2Min == 150
WideCo2Max == 250
LoadFactorMin == 6000
LoadFactorMax == 9500

----------------------------------------------------------------------------
(* Catalogs set up by __init__.  A code is the sequence of its characters. *)

aircraft_types ==
    << <<"A","3","2","0">>, <<"B","7","3","7">>, <<"A","3","2","1">>, <<"B","7","3","8">>,
       <<"A","3","1","9">>, <<"B","7","3","9">>, <<"A","2","0","N">>, <<"B","3","8","M">>,
       <<"A","2","1","N">>, <<"B","7","8","9">>, <<"A","3","5","9">>, <<"B","7","7","W">>,
       <<"B","7","8","8">>, <<"A","3","3","3">>, <<"A","3","5","0">>, <<"B","7","7","2">>,
       <<"B","7","7","L">>, <<"A","3","3","2">>, <<"B","7","6","3">>, <<"A","3","0","6">> >>

airline_codes ==
    << <<"A","A">>, <<"D","L">>, <<"U","A">>, <<"B","A">>, <<"L","H">>,
       <<"A","F">>, <<"E","K">>, <<"S","Q">>, <<"Q","F">>, <<"J","L">> >>

Range(s) == {s[k] : k \in DOMAIN s}

Min(a, b) == IF a <= b THEN a ELSE b

(* Python's "sub in s" on strings *)
Contains(s, sub) ==
    \E k \in 0..(Len(s) - Len(sub)) : SubSeq(s, k + 1, k + Len(sub)) = sub

(* Python's a % b for a >= 0 and b # 0: the result takes the sign of b *)
PyMod(a, b) ==
    IF b > 0 THEN a % b
    ELSE LET r == a % (0 - b) IN IF r = 0 THEN 0 ELSE r + b

(* f"{n:04d}": decimal digits of n, zero-padded to a width of 4 *)
DigitChar(d) == <<"0","1","2","3","4","5","6","7","8","9">>[d + 1]

RECURSIVE Decimal(_)
Decimal(n) == IF n < 10 THEN <<DigitChar(n)>> ELSE Decimal(n \div 10) \o <<DigitChar(n % 10)>>

RECURSIVE ZeroPad(_, _)
ZeroPad(s, width) == IF Len(s) >= width THEN s ELSE ZeroPad(<<"0">> \o s, width)

(* f"{airline}{n:04d}"[:10] *)
FlightNumber(airline, n) ==
    LET s == airline \o ZeroPad(Decimal(n), 4)
    IN  SubSeq(s, 1, Min(Len(s), FlightNoWidth))

----------------------------------------------------------------------------
(* generate_flight_record *)

CabinClassMutant(rand_val) ==
    IF rand_val <= EconomyBelow THEN "economy"
    ELSE IF rand_val < BusinessBelow THEN "business"
    ELSE "first"

CabinClass(rand_val) ==
    IF rand_val < EconomyBelow THEN "economy"
    ELSE IF rand_val < BusinessBelow THEN "business"
    ELSE "first"

IsNarrowBodyMutant(aircraft_type) ==
    Contains(aircraft_type, <<"A","3","2">>) \/ Contains(aircraft_type, <<"B","7","3">>)

IsNarrowBody(aircraft_type) ==
    Contains(aircraft_type, <<"A","3">>) \/ Contains(aircraft_type, <<"B","7","3">>)

PaxRange(aircraft_type) ==
    IF IsNarrowBody(aircraft_type) THEN NarrowPaxMin..NarrowPaxMax ELSE WidePaxMin..WidePaxMax

Co2Range(aircraft_type) ==
    IF IsNarrowBody(aircraft_type) THEN NarrowCo2Min..NarrowCo2Max ELSE WideCo2Min..WideCo2Max

(* int(max_pax * 0.6), int(max_pax * 0.3).  In binary64 the product truncates to *)
(* the exact quotient for every max_pax of 150..400.                              *)
MaxPax(cabin_class, max_pax) ==
    IF cabin_class = "business" THEN (max_pax * 6) \div 10
    ELSE IF cabin_class = "first" THEN (max_pax * 3) \div 10
    ELSE max_pax

(* int(base_co2 * 1.5), int(base_co2 * 2.0): both products are exact in binary64 *)
BaseCo2(cabin_class, base_co2) ==
    IF cabin_class = "business" THEN (base_co2 * 3) \div 2
    ELSE IF cabin_class = "first" THEN base_co2 * 2
    ELSE base_co2

(* The pairs <<max_pax, load_factor in hundredths>> on which the binary64       *)
(* evaluation of max_pax * (load_factor / 100) falls just below the exact       *)
(* product, an integer, so that int() truncates to one less.  load_factor is    *)
(* the double nearest to its two-decimal value (round(..., 2)); the pairs cover *)
(* every max_pax the preceding statements can produce (45..400) and every       *)
(* load_factor of 60.00..95.00.                                                 *)
Binary64Shortfall ==
    { <<90, 7000>>, <<125, 6560>>, <<125, 7760>>, <<125, 8080>>, <<125, 8960>>,
      <<125, 9280>>, <<150, 8200>>, <<170, 7000>>, <<180, 7000>>, <<250, 6560>>,
      <<250, 6680>>, <<250, 6760>>, <<250, 7560>>, <<250, 7760>>, <<250, 7880>>,
      <<250, 7960>>, <<250, 8080>>, <<250, 8760>>, <<250, 8960>>, <<250, 9080>>,
      <<250, 9160>>, <<250, 9280>>, <<300, 6900>>, <<300, 8200>>, <<330, 7000>>,
      <<340, 7000>>, <<350, 7000>>, <<360, 7000>>, <<375, 6560>>, <<375, 7760>>,
      <<375, 8960>>, <<400, 6275>>, <<400, 6325>>, <<400, 6375>> }

(* int(max_pax * (load_factor / 100)), load_factor in hundredths of a percent *)
Passengers(max_pax, load_factor) ==
    LET q == (max_pax * load_factor) \div 10000
    IN  IF <<max_pax, load_factor>> \in Binary64Shortfall THEN q - 1 ELSE q

TotalCo2Mutant(passengers, co2_per_pax) == passengers * co2_per_pax + 1

TotalCo2(passengers, co2_per_pax) == passengers * co2_per_pax

(* f"{load_factor:.2f}": integer part and the two fraction digits *)
FormatLoadFactor(load_factor) ==
    Decimal(load_factor \div 100) \o <<".">> \o ZeroPad(Decimal(load_factor % 100), 2)

(* The random draws of one call: day offset, airline, flight number suffix,     *)
(* aircraft type, cabin selector, capacity, base emission, load factor; the     *)
(* capacity and the base emission come from the range of the body type, of      *)
(* which the samples in paxSamples and co2Samples are taken.                    *)
Draws(days, airlines, numbers, types, selectors, paxSamples, co2Samples, factors) ==
    UNION { [ day : days, airline : airlines, number : numbers,
              aircraft_type : {t}, rand_val : selectors,
              max_pax : PaxRange(t) \cap paxSamples,
              base_co2 : Co2Range(t) \cap co2Samples,
              load_factor : (LoadFactorMin..LoadFactorMax) \cap factors ]
            : t \in types }

generate_flight_record(record_id, route_id, d) ==
    LET cabin_class == CabinClass(d.rand_val)
        max_pax     == MaxPax(cabin_class, d.max_pax)
        base_co2    == BaseCo2(cabin_class, d.base_co2)
        passengers  == Passengers(max_pax, d.load_factor)
        co2_per_pax == base_co2
        total_co2   == TotalCo2(passengers, co2_per_pax)
    IN  [ record_id            |-> record_id,
          route_id             |-> route_id,
          flight_date          |-> d.day,
          flight_number        |-> FlightNumber(d.airline, d.number),
          aircraft_type        |-> d.aircraft_type,
          passengers           |-> passengers,
          load_factor          |-> FormatLoadFactor(d.load_factor),
          cabin_class          |-> cabin_class,
          total_co2_kg         |-> total_co2,
          co2_per_passenger_kg |-> co2_per_pax,
          created_at           |-> "now" ]

(* The locals of the same call: the draws, and max_pax and base_co2 as they are  *)
(* after the cabin-class adjustment of lines 70-76.                              *)
generate_flight_record_locals(d) ==
    [ draw     |-> d,
      max_pax  |-> MaxPax(CabinClass(d.rand_val), d.max_pax),
      base_co2 |-> BaseCo2(CabinClass(d.rand_val), d.base_co2) ]

NoRecord == [ record_id |-> 0 ]
NoLocals == [ max_pax |-> 0 ]

----------------------------------------------------------------------------
(* generate_to_csv and main *)

fieldnames ==
    << "record_id", "route_id", "flight_date", "flight_number", "aircraft_type",
       "passengers", "load_factor", "cabin_class", "total_co2_kg",
       "co2_per_passenger_kg", "created_at" >>

(* writer.writeheader(): the field names, in order *)
HeaderRow == [ kind |-> "header", cells |-> fieldnames ]

(* writer.writerow(record): the values of the dict in fieldnames order *)
DataRow(rec) == [ kind |-> "row", cells |-> [ k \in DOMAIN fieldnames |-> rec[fieldnames[k]] ] ]

(* What output_file may hold before the run *)
StaleRow == [ kind |-> "stale" ]

OpenForAppend(content) == content

(* open(output_file, 'w'): the previous content is truncated *)
OpenForWrite(content) == << >>

NextIndexMutant(k) == k + 2

(* for i in range(1, total_records + 1): the index after k *)
NextIndex(k) == k + 1

BatchDueMutant(k, batch_size) == PyMod(k + 1, batch_size) = 0

(* i % batch_size == 0 *)
BatchDue(k, batch_size) == PyMod(k, batch_size) = 0

RouteIds == {1, RouteIdMax}

(* The draws made inside the loop of one run, from a small sample of each range *)
LoopPax == {150, 250}
LoopCo2 == {80, 150}
LoopDraws(date_range) ==
    Draws(0..date_range, {airline_codes[1]}, {FlightNoMin}, {aircraft_types[1]},
          {1}, LoopPax, LoopCo2, {LoadFactorMin})

Configs ==
    [ total_records : -1..MaxRecords, batch_size : -1..MaxBatch, date_range : -1..MaxDateRange ]

Init ==
    /\ config \in Configs
    /\ pc = "main"
    /\ i = 0
    /\ record = NoRecord
    /\ locals = NoLocals
    /\ handle = "none"
    /\ buf = << >>
    /\ disk \in { << >>, <<StaleRow>> }
    /\ progress = 0
    /\ flushLog = << >>
    /\ genCalls = << >>
    /\ raised = "none"
    /\ exit_status = -1

(* main, lines 154-157: os.makedirs and the constructor run outside the try;     *)
(* an OSError there is not caught and ends the process with a traceback.         *)
Bootstrap ==
    /\ pc = "main"
    /\ \/ /\ pc' = "generate_to_csv"
          /\ UNCHANGED <<raised, exit_status>>
       \/ /\ raised' = "OSError"
          /\ exit_status' = 1
          /\ pc' = "exited"
    /\ UNCHANGED <<config, i, record, locals, handle, buf, disk, progress, flushLog, genCalls>>

(* generate_to_csv, lines 105-126: os.makedirs, then open(output_file, 'w') *)
OpenFile ==
    /\ pc = "generate_to_csv"
    /\ \/ /\ handle' = "open"
          /\ disk' = OpenForWrite(disk)
          /\ pc' = "writeheader"
          /\ UNCHANGED raised
       \/ /\ raised' = "OSError"
          /\ pc' = "except"
          /\ UNCHANGED <<handle, disk>>
    /\ UNCHANGED <<config, i, record, locals, buf, progress, flushLog, genCalls, exit_status>>

(* lines 127-130: DictWriter, writeheader, tqdm(total=total_records) *)
WriteHeader ==
    /\ pc = "writeheader"
    /\ \/ /\ buf' = Append(buf, HeaderRow)
          /\ progress' = 0
          /\ pc' = "loop"
          /\ UNCHANGED raised
       \/ /\ raised' = "OSError"
          /\ pc' = "exit_with"
          /\ UNCHANGED <<buf, progress>>
    /\ UNCHANGED <<config, i, record, locals, handle, disk, flushLog, genCalls, exit_status>>

(* lines 131-136: the next i of the range, the route_id draw and the call of     *)
(* generate_flight_record, whose random.randint(0, date_range) raises ValueError *)
(* on an empty range before anything else is drawn.                              *)
Generate ==
    /\ pc = "loop"
    /\ NextIndex(i) <= config.total_records
    /\ i' = NextIndex(i)
    /\ genCalls' = Append(genCalls, i')
    /\ IF config.date_range < 0
       THEN /\ raised' = "ValueError"
            /\ pc' = "exit_with"
            /\ UNCHANGED <<record, locals>>
       ELSE /\ \E route_id \in RouteIds, d \in LoopDraws(config.date_range) :
                 /\ record' = generate_flight_record(i', route_id, d)
                 /\ locals' = generate_flight_record_locals(d)
            /\ pc' = "writerow"
            /\ UNCHANGED raised
    /\ UNCHANGED <<config, handle, buf, disk, progress, flushLog, exit_status>>

(* line 131: the range is exhausted *)
LoopExit ==
    /\ pc = "loop"
    /\ NextIndex(i) > config.total_records
    /\ pc' = "exit_with"
    /\ UNCHANGED <<config, i, record, locals, handle, buf, disk, progress, flushLog,
                   genCalls, raised, exit_status>>

(* line 137: writer.writerow(record) *)
WriteRow ==
    /\ pc = "writerow"
    /\ \/ /\ buf' = Append(buf, DataRow(record))
          /\ pc' = "batch"
          /\ UNCHANGED raised
       \/ /\ raised' = "OSError"
          /\ pc' = "exit_with"
          /\ UNCHANGED buf
    /\ UNCHANGED <<config, i, record, locals, handle, disk, progress, flushLog, genCalls, exit_status>>

(* lines 140-142: i % batch_size raises ZeroDivisionError for batch_size = 0;    *)
(* otherwise, on a multiple, pbar.update(batch_size) and then csvfile.flush().   *)
BatchCheck ==
    /\ pc = "batch"
    /\ IF config.batch_size = 0
       THEN /\ raised' = "ZeroDivisionError"
            /\ pc' = "exit_with"
            /\ UNCHANGED <<progress, flushLog, buf, disk>>
       ELSE IF BatchDue(i, config.batch_size)
       THEN /\ progress' = progress + config.batch_size
            /\ flushLog' = Append(flushLog, [ rows |-> i, progress |-> progress' ])
            /\ \/ /\ disk' = disk \o buf
                  /\ buf' = << >>
                  /\ pc' = "loop"
                  /\ UNCHANGED raised
               \/ /\ raised' = "OSError"
                  /\ pc' = "exit_with"
                  /\ UNCHANGED <<buf, disk>>
       ELSE /\ pc' = "loop"
            /\ UNCHANGED <<progress, flushLog, buf, disk, raised>>
    /\ UNCHANGED <<config, i, record, locals, handle, genCalls, exit_status>>

ExitWithMutant ==
    /\ pc = "exit_with"
    /\ IF raised = "none"
       THEN /\ handle' = "closed"
            /\ disk' = disk \o buf
            /\ buf' = << >>
            /\ pc' = "summary"
       ELSE /\ pc' = "except"
            /\ UNCHANGED <<handle, disk, buf>>
    /\ UNCHANGED <<config, i, record, locals, progress, flushLog, genCalls, raised, exit_status>>

(* lines 126 and 130: leaving the with blocks, normally or with an exception in  *)
(* flight, closes csvfile, which writes out what is buffered.                    *)
ExitWith ==
    /\ pc = "exit_with"
    /\ handle' = "closed"
    /\ disk' = disk \o buf
    /\ buf' = << >>
    /\ pc' = IF raised = "none" THEN "summary" ELSE "except"
    /\ UNCHANGED <<config, i, record, locals, progress, flushLog, genCalls, raised, exit_status>>

(* lines 144-149 and 162-163: the summary is printed and main returns *)
Summary ==
    /\ pc = "summary"
    /\ exit_status' = 0
    /\ pc' = "exited"
    /\ UNCHANGED <<config, i, record, locals, handle, buf, disk, progress, flushLog, genCalls, raised>>

(* lines 165-166: "except Exception as e" prints the error and main returns *)
Except ==
    /\ pc = "except"
    /\ exit_status' = 0
    /\ pc' = "exited"
    /\ UNCHANGED <<config, i, record, locals, handle, buf, disk, progress, flushLog, genCalls, raised>>

Next ==
    \/ Bootstrap
    \/ OpenFile
    \/ WriteHeader
    \/ Generate
    \/ LoopExit
    \/ WriteRow
    \/ BatchCheck
    \/ ExitWith
    \/ Summary
    \/ Except

Spec == Init /\ [][Next]_vars

----------------------------------------------------------------------------
(* generate_flight_record on its own, over samples of every range it draws from *)

PaxSamples == {150, 170, 220, 250, 300, 400}

Co2Samples == {80, 81, 120, 150, 151, 250}

LoadFactorSamples == {6000, 6560, 7000, 8200, 9500}

RecDraws ==
    Draws({0}, {airline_codes[1]}, {FlightNoMax}, Range(aircraft_types),
          1..SelectorMax, PaxSamples, Co2Samples, LoadFactorSamples)

InitRec ==
    /\ config = [ total_records |-> 1, batch_size |-> 1, date_range |-> 0 ]
    /\ pc = "generate_flight_record"
    /\ i = 1
    /\ record = NoRecord
    /\ locals = NoLocals
    /\ handle = "none"
    /\ buf = << >>
    /\ disk = << >>
    /\ progress = 0
    /\ flushLog = << >>
    /\ genCalls = << >>
    /\ raised = "none"
    /\ exit_status = -1

(* lines 38-101, one call *)
GenerateRecord ==
    /\ pc = "generate_flight_record"
    /\ record = NoRecord
    /\ \E route_id \in RouteIds, d \in RecDraws :
          /\ record' = generate_flight_record(i, route_id, d)
          /\ locals' = generate_flight_record_locals(d)
    /\ UNCHANGED <<config, pc, i, handle, buf, disk, progress, flushLog, genCalls,
                   raised, exit_status>>

NextRec == GenerateRecord

SpecRec == InitRec /\ [][NextRec]_vars

----------------------------------------------------------------------------
(* Properties of one run (Spec) *)

(* Everything written to csvfile so far, in write order *)
File == IF handle = "none" THEN << >> ELSE disk \o buf

IsDataRow(r) == r.kind = "row"

DataRows == SelectSeq(File, IsDataRow)

(* The run left generate_to_csv without an exception *)
Completed == pc \in {"summary", "exited"} /\ raised = "none"

Malformed(c) == c.date_range < 0 \/ c.total_records <= 0 \/ c.batch_size <= 0

(* C1: the record_id of the k-th data row written is k and the k-th call of      *)
(* generate_flight_record is for record_id k, every written row has had its one  *)
(* call, and a run with total_records = N >= 0 that completes has written the    *)
(* rows 1..N from exactly N calls.                                               *)
C1_ContiguousRecordIds ==
    /\ \A k \in 1..Len(DataRows) : DataRows[k].cells[1] = k
    /\ \A k \in 1..Len(genCalls) : genCalls[k] = k
    /\ Len(DataRows) <= Len(genCalls)
    /\ Len(genCalls) <= Len(DataRows) + 1
    /\ (Completed /\ config.total_records >= 0) =>
          /\ Len(DataRows) = config.total_records
          /\ Len(genCalls) = config.total_records

C1_Witness ==
    /\ Completed
    /\ pc = "exited"
    /\ config.total_records >= 2
    /\ Len(DataRows) = config.total_records
    /\ DataRows[2].cells[1] = 2

(* C2: under a malformed configuration generate_flight_record is never called,   *)
(* no data row is written and the run ends with an error.                        *)
C2_FailFast ==
    Malformed(config) =>
        /\ genCalls = << >>
        /\ DataRows = << >>
        /\ (pc = "exited" => raised # "none")

(* C3: a run in which an error was raised ends with a non-zero exit status. *)
C3_ErrorsExitNonZero ==
    (pc = "exited" /\ raised # "none") => exit_status # 0

(* C4: the file holds the header row in first position and only data rows after  *)
(* it, nothing of its previous content; generation starts only once the header   *)
(* is written; a completed run with total_records = 0 leaves the header alone    *)
(* on disk, one with total_records = 1 the header and one row of record_id 1.    *)
C4_HeaderOnceFirst ==
    /\ handle # "none" =>
          \A k \in 1..Len(File) : File[k].kind = IF k = 1 THEN "header" ELSE "row"
    /\ pc \in {"loop", "writerow", "batch"} => Len(File) >= 1
    /\ genCalls # << >> => Len(File) >= 1
    /\ (Completed /\ config.total_records = 0) =>
          Len(disk) = 1 /\ disk[1].kind = "header"
    /\ (Completed /\ config.total_records = 1) =>
          /\ Len(disk) = 2
          /\ disk[1].kind = "header"
          /\ disk[2].kind = "row"
          /\ disk[2].cells[1] = 1

C4_Witness ==
    /\ Completed
    /\ config.total_records = 1
    /\ Len(disk) = 2
    /\ disk[2].cells[1] = 1

(* C5: for batch_size >= 1 the k-th flush is called when k * batch_size rows are *)
(* written, with a cumulative progress equal to that row count; before the next  *)
(* record is generated or written the flushes number rows \div batch_size, and   *)
(* at a multiple of batch_size nothing is left in the buffer.                    *)
C5_FlushEveryBatch ==
    config.batch_size >= 1 =>
        /\ \A k \in 1..Len(flushLog) :
              /\ flushLog[k].rows = k * config.batch_size
              /\ flushLog[k].progress = flushLog[k].rows
        /\ progress = config.batch_size * Len(flushLog)
        /\ (pc \in {"loop", "writerow"}) =>
              /\ Len(flushLog) = Len(DataRows) \div config.batch_size
              /\ progress = config.batch_size * (Len(DataRows) \div config.batch_size)
        /\ (pc = "loop" /\ Len(DataRows) > 0 /\ Len(DataRows) % config.batch_size = 0) =>
              buf = << >>

C5_Witness ==
    /\ config.batch_size = 2
    /\ pc = "loop"
    /\ Len(DataRows) = 2
    /\ Len(flushLog) = 1
    /\ progress = 2
    /\ buf = << >>

(* C6: once the run has left the with block, on any path, csvfile is closed if   *)
(* it was opened and nothing is left in its buffer.                              *)
C6_HandleClosed ==
    /\ pc \in {"summary", "except", "exited"} => (handle # "open" /\ buf = << >>)
    /\ (pc \in {"summary", "except", "exited"} /\ File # << >>) => handle = "closed"
    /\ handle = "closed" => buf = << >>

C6_Witness ==
    /\ pc = "exited"
    /\ raised = "ValueError"
    /\ handle = "closed"
    /\ Len(disk) = 1

----------------------------------------------------------------------------
(* Properties of one generated record (SpecRec) *)

(* C7: total_co2_kg = passengers * co2_per_passenger_kg, and                     *)
(* co2_per_passenger_kg is the base emission times 1.5 (business), 2.0 (first)   *)
(* or 1.0 (economy), truncated.                                                  *)
C7_TotalCo2Exact ==
    record # NoRecord =>
        /\ record.total_co2_kg = record.passengers * record.co2_per_passenger_kg
        /\ record.co2_per_passenger_kg =
              CASE record.cabin_class = "business" -> (locals.draw.base_co2 * 15) \div 10
                [] record.cabin_class = "first"    -> (locals.draw.base_co2 * 20) \div 10
                [] record.cabin_class = "economy"  -> locals.draw.base_co2

C7_Witness ==
    /\ record # NoRecord
    /\ record.cabin_class = "business"
    /\ locals.draw.base_co2 = 81
    /\ record.co2_per_passenger_kg = 121
    /\ record.passengers > 0
    /\ record.total_co2_kg = record.passengers * 121

(* C8: 0 <= passengers <= max_pax with max_pax the capacity times 0.6            *)
(* (business), 0.3 (first) or 1.0 (economy), truncated, and                      *)
(* passengers = floor(max_pax * load_factor / 100), load_factor in 60.00..95.00. *)
C8_PassengersFloor ==
    record # NoRecord =>
        LET cap == locals.draw.max_pax
            lf  == locals.draw.load_factor
            mp  == CASE record.cabin_class = "business" -> (cap * 6) \div 10
                     [] record.cabin_class = "first"    -> (cap * 3) \div 10
                     [] record.cabin_class = "economy"  -> cap
        IN  /\ lf \in 6000..9500
            /\ 0 <= record.passengers
            /\ record.passengers <= mp
            /\ record.passengers = (mp * lf) \div 10000

C10_CabinClassThresholds ==
    /\ record # NoRecord =>
          LET v == locals.draw.rand_val
          IN  /\ v \in 1..100
              /\ record.cabin_class \in {"economy", "business", "first"}
              /\ v < 85 => record.cabin_class = "economy"
              /\ (85 <= v /\ v < 97) => record.cabin_class = "business"
              /\ 97 <= v => record.cabin_class = "first"
    /\ Cardinality({v \in 1..100 : CabinClass(v) = "economy"}) = 84
    /\ Cardinality({v \in 1..100 : CabinClass(v) = "business"}) = 12
    /\ Cardinality({v \in 1..100 : CabinClass(v) = "first"}) = 4

C10_Witness ==
    /\ record # NoRecord
    /\ locals.draw.rand_val = 85
    /\ record.cabin_class = "business"

====
